---- MODULE Spec2Model ----
(***************************************************************************)
(* A model of notebooks/basic_tutorial.ipynb: a Jupyter kernel that runs   *)
(* the notebook's code cells one at a time in document order, over a file  *)
(* system that outlives the kernel.  The state is the kernel's namespace   *)
(* (which names are bound, and the values the properties need), the files  *)
(* on disk, the text a cell has printed, and the position inside the two   *)
(* library calls that run in several steps (data generation and training). *)
(* Paths and file names are strings, handled as the Python code handles    *)
(* them: concatenation, os.listdir, the substring test 'state_dict' in f.  *)
(***************************************************************************)
EXTENDS Integers, Sequences, FiniteSets, TLC

VARIABLES
    cwd,               \* the kernel's working directory
    fs,                \* the file system: absolute path -> content
    uuid_next,         \* source of fresh uuid1() values
    session,           \* number of kernel sessions started so far
    pc,                \* the cell to run next, or "done" / "halted"
    ns,                \* names bound in the kernel's namespace
    out_of_doc,        \* names bound by an execution that is not a cell of the document
    stdout,            \* lines printed by the cell that is running / ran last
    generator_config,  \* cell MAKE CONFIGS
    gen,               \* progress of generate_data_training_uniform
    file_list_,        \* cell MAKE DATALOADERS
    datasets,          \* torch_training_dataset / torch_validation_dataset and their loaders
    network_config,    \* cell SPECIFY NETWORK CONFIGS
    train_config,
    net,               \* TorchMLP built by cell LOAD NETWORK
    trainer,           \* progress of train_model
    network_file_path, \* cell network = LoadTorchMLPInfer(...)
    network,
    calls,             \* the inference calls made on the loaded network
    data,              \* the inference input table of the comparison cell
    sim_call,          \* arguments of the simulator call of the comparison cell
    heap,              \* the dictionaries in memory, by object identity
    refs,              \* the dictionary each name or attribute refers to
    epoch_io,          \* what the two loaders read and yielded in the last epoch
    plot_x             \* x-coordinates of the line drawn by the plotting cell

vars == <<cwd, fs, uuid_next, session, pc, ns, out_of_doc, stdout,
          generator_config, gen, file_list_, datasets, network_config,
          train_config, net, trainer, network_file_path, network, calls,
          data, sim_call, heap, refs, epoch_io, plot_x>>

-----------------------------------------------------------------------------
(* Bounds of the model and constants of the notebook.                      *)

\* Kernel sessions (Restart & Run All) in one behaviour.
MaxSessions == 2

\* Half the number of rows of the inference table (1000 in the notebook).
HalfRows == 3

\* 'simulation round: 1  of 10' ... 'simulation round: 10  of 10'
NRounds == 10

\* train_config['n_epochs']
NEpochs == 10

\* generator_config['n_parameter_sets'] = 100
NParameterSets == 100

\* generator_config['n_samples'] = 1000
NSamples == 1000

\* DatasetTorch(batch_size = 128)
BatchSize == 128

\* length of the vector given to the network: five parameters, rt, choice
InputDim == 7

\* simulator(n_samples = 2000)
SimSamples == 2000

\* Working directories the kernel may have been started in.
WorkingDirs == {"/", "/home/user/notebooks"}

-----------------------------------------------------------------------------
(* Strings and paths.                                                      *)

\* Python: pat in s
Contains(s, pat) ==
    \E i \in 1..(Len(s) - Len(pat) + 1) : SubSeq(s, i, i + Len(pat) - 1) = pat

IsAbs(p) == Len(p) > 0 /\ SubSeq(p, 1, 1) = "/"

\* os.path.join(base, p)
PathJoin(base, p) == IF IsAbs(p) THEN p ELSE base \o "/" \o p

\* os.path.normpath, for the paths of the notebook: repeated and trailing
\* slashes are dropped.  A "/" stays when it is followed by a name.
KeepChar(p, i) ==
    ~(SubSeq(p, i, i) = "/" /\ (i = Len(p) \/ SubSeq(p, i + 1, i + 1) = "/"))

NormPath(p) ==
    LET n == Len(p)
        part[r \in (1..n) \X (1..n)] ==
            IF r[1] = r[2]
            THEN (IF KeepChar(p, r[1]) THEN SubSeq(p, r[1], r[1]) ELSE "")
            ELSE part[<<r[1], (r[1] + r[2]) \div 2>>]
                    \o part[<<(r[1] + r[2]) \div 2 + 1, r[2]>>]
        kept == IF n = 0 THEN "" ELSE part[<<1, n>>]
    IN  IF kept = "" /\ IsAbs(p) THEN "/" ELSE kept

\* The file or folder a path names when the kernel runs in directory d.
AbsPath(d, p) == NormPath(PathJoin(d, p))

\* Index of the last "/" of p (0 when there is none).
LastSlash(p) ==
    LET slashes == { i \in 1..Len(p) : SubSeq(p, i, i) = "/" }
    IN  IF slashes = {} THEN 0
        ELSE CHOOSE i \in slashes : \A j \in slashes : j <= i

Dirname(p) ==
    LET k == LastSlash(p)
    IN  IF k <= 1 THEN "/" ELSE SubSeq(p, 1, k - 1)

Basename(p) == SubSeq(p, LastSlash(p) + 1, Len(p))

\* os.listdir(folder): the names of the entries of the folder (their order
\* is arbitrary, so the listing is kept as a set).
ListDir(files, d, folder) ==
    { Basename(f) : f \in { g \in DOMAIN files : Dirname(g) = AbsPath(d, folder) } }

\* uuid.uuid1().hex
Uuid(k) == "ef5b9e0eb76c" \o ToString(k)

WriteFile(files, path, content) ==
    [ f \in (DOMAIN files) \cup {path} |->
        IF f = path THEN content ELSE files[f] ]

-----------------------------------------------------------------------------
(* The code cells of the document, in document order.                      *)

CellOrder ==
    << "import", "configs", "make_data", "dataloaders", "net_configs",
       "load_network", "train", "load_infer", "call", "compare", "plot" >>

Cells == { CellOrder[i] : i \in 1..Len(CellOrder) }

CellIndex(c) == CHOOSE i \in 1..Len(CellOrder) : CellOrder[i] = c

\* The cell that follows c in the document ("done" after the last one).
NextCell(c) ==
    IF CellIndex(c) = Len(CellOrder) THEN "done" ELSE CellOrder[CellIndex(c) + 1]

\* The names a cell reads that it does not bind itself first.
Uses(c) ==
    CASE c = "import"       -> {}
      [] c = "configs"      -> {"deepcopy", "ssms"}
      [] c = "make_data"    -> {"ssms", "generator_config", "model_config"}
      [] c = "dataloaders"  -> {"os", "lanfactory", "torch"}
      [] c = "net_configs"  -> {"lanfactory"}
      [] c = "load_network" -> {"lanfactory", "deepcopy", "network_config",
                                "train_config", "torch_training_dataset"}
      [] c = "train"        -> {"model_trainer"}
      [] c = "load_infer"   -> {"os", "lanfactory", "network_config",
                                "torch_training_dataset"}
      [] c = "call"         -> {"network", "torch", "np"}
      [] c = "compare"      -> {"np", "network"}
      [] c = "plot"         -> {"plt", "data", "np", "predict_on_batch_out", "sim_out"}

\* The names a cell binds.
Defines(c) ==
    CASE c = "import"       -> {"ssms", "lanfactory", "os", "np", "deepcopy", "torch"}
      [] c = "configs"      -> {"generator_config", "model_config"}
      [] c = "make_data"    -> {"my_dataset_generator", "training_data"}
      [] c = "dataloaders"  -> {"folder_", "file_list_", "torch_training_dataset",
                                "torch_training_dataloader", "torch_validation_dataset",
                                "torch_validation_dataloader"}
      [] c = "net_configs"  -> {"network_config", "train_config"}
      [] c = "load_network" -> {"net"}
      [] c = "train"        -> {}
      [] c = "load_infer"   -> {"network_path_list", "network_file_path", "network"}
      [] c = "call"         -> {"direct_out", "predict_on_batch_out"}
      [] c = "compare"      -> {"pd", "plt", "data", "predict_on_batch_out",
                                "simulator", "sim_out"}
      [] c = "plot"         -> {}

\* A cell can run when it is the next one and every name it reads is bound.
CanRun(c) == pc = c /\ Uses(c) \subseteq ns

-----------------------------------------------------------------------------
(* Values of unbound names.                                                *)

NoGeneratorConfig ==
    [dgp_list |-> "", n_parameter_sets |-> 0, n_samples |-> 0, output_folder |-> ""]

GenIdle == [phase |-> "idle", round |-> 0, written |-> {}]

NoDataset == [file_IDs |-> {}, batch_size |-> 0, input_dim |-> 0]

NoLoader == [shuffle |-> FALSE, batch_size_is_none |-> FALSE, batch_size |-> 0,
             num_workers |-> 0, pin_memory |-> FALSE]

NoDatasets == [train |-> NoDataset, valid |-> NoDataset,
               train_loader |-> NoLoader, valid_loader |-> NoLoader]

NoConfig == [keys |-> {}]

NoNet == [model_id |-> "", network_config |-> NoConfig, input_shape |-> 0,
          save_folder |-> "", generative_model_id |-> ""]

TrainerIdle == [phase |-> "unbound", epoch |-> 0, output_folder |-> "",
                model_id |-> "", n_epochs |-> 0, written |-> <<>>]

NoNetwork == [model_file_path |-> "", network_config |-> NoConfig, input_dim |-> 0,
              weights |-> [kind |-> "none"]]

NoSimCall == [model |-> "", theta |-> <<>>, n_samples |-> 0]

NoRefs == [generator_config |-> "", network_config |-> "", train_config |-> "",
           net_network_config |-> "", network_network_config |-> ""]

NoEpochIO == [train_files |-> {}, train_item |-> <<>>,
              valid_files |-> {}, valid_item |-> <<>>, validated |-> FALSE]

-----------------------------------------------------------------------------
(* Dictionaries are objects: a name holds a reference, an assignment       *)
(* through a name changes the object, and deepcopy makes a new object.     *)

\* The value ssms/config.py gives data_generator_config['lan']['mlp'].
SsmsSource == "ssms/config.py: data_generator_config['lan']['mlp']"

\* ssms.config.data_generator_config['lan']['mlp'], the dictionary in memory.
SsmsLanMlp == "ssms.config.data_generator_config['lan']['mlp']"

\* lanfactory.config.network_configs.network_config_mlp and train_config_mlp.
LanfactoryNetworkConfigMlp == "lanfactory.config.network_configs.network_config_mlp"
LanfactoryTrainConfigMlp == "lanfactory.config.network_configs.train_config_mlp"

\* The installed ssms is not part of the notebook: its default is one of
\* these.  nbins and n_subruns are the values the generation output shows
\* ('nbins_0', 'of 10'); the default output folder may or may not be the
\* one the notebook assigns.
DefaultGeneratorConfigs ==
    { [dgp_list         |-> "ddm",
       n_parameter_sets |-> 10000,
       n_samples        |-> 100000,
       output_folder    |-> f,
       nbins            |-> 0,
       n_subruns        |-> NRounds] : f \in {"data/lan_mlp/", "data/"} }

\* The values the cell SPECIFY NETWORK CONFIGS prints for the two
\* dictionaries of lanfactory.config.network_configs.
network_config_mlp ==
    [layer_types |-> <<"dense", "dense", "dense">>,
     layer_sizes |-> <<100, 100, 1>>,
     activations |-> <<"tanh", "tanh", "linear">>,
     loss        |-> <<"huber">>,
     callbacks   |-> <<"checkpoint", "earlystopping", "reducelr">>]

train_config_mlp ==
    [batch_size       |-> BatchSize,
     n_epochs         |-> NEpochs,
     optimizer        |-> "adam",
     learning_rate_e3 |-> 2,
     loss             |-> "huber",
     save_history     |-> TRUE,
     metrics          |-> <<"MeanSquaredError", "Huber">>,
     callbacks        |-> <<"checkpoint", "earlystopping", "reducelr">>]

\* The heap h with object o holding value v.
Store(h, o, v) == [x \in (DOMAIN h) \cup {o} |-> IF x = o THEN v ELSE h[x]]

\* A variant that hands back the object itself.
Deepcopy_alias(o) == o

\* deepcopy(o): the identity of the new object.
Deepcopy(o) == "deepcopy(" \o o \o ")"

Init ==
    /\ cwd \in WorkingDirs
    /\ fs = [f \in {} |-> [kind |-> "none"]]
    /\ uuid_next = 1
    /\ session = 1
    /\ pc = CellOrder[1]
    /\ ns = {}
    /\ out_of_doc = {}
    /\ stdout = <<>>
    /\ generator_config = NoGeneratorConfig
    /\ gen = GenIdle
    /\ file_list_ = {}
    /\ datasets = NoDatasets
    /\ network_config = NoConfig
    /\ train_config = NoConfig
    /\ net = NoNet
    /\ trainer = TrainerIdle
    /\ network_file_path = ""
    /\ network = NoNetwork
    /\ calls = <<>>
    /\ data = <<>>
    /\ sim_call = NoSimCall
    /\ \E d \in DefaultGeneratorConfigs : heap = [o \in {SsmsSource} |-> d]
    /\ refs = NoRefs
    /\ epoch_io = NoEpochIO
    /\ plot_x = <<>>

-----------------------------------------------------------------------------
(* Cell: imports.                                                          *)

ImportCell ==
    /\ CanRun("import")
    /\ ns' = ns \cup Defines("import")
    /\ stdout' = <<>>
    /\ pc' = NextCell("import")
    /\ heap' = Store(Store(Store(heap, SsmsLanMlp, heap[SsmsSource]),
                           LanfactoryNetworkConfigMlp, network_config_mlp),
                     LanfactoryTrainConfigMlp, train_config_mlp)
    /\ UNCHANGED <<cwd, fs, uuid_next, session, out_of_doc, generator_config, gen,
                   file_list_, datasets, network_config, train_config, net,
                   trainer, network_file_path, network, calls, data, sim_call,
                   refs, epoch_io, plot_x>>

(* Cell: MAKE CONFIGS.                                                     *)

\* The keys the cell assigns.
AssignedKeys == {"dgp_list", "n_parameter_sets", "n_samples", "output_folder"}

\* A variant that assigns a fifth key.
GeneratorConfigAssignments_five(cfg) ==
    [cfg EXCEPT !.dgp_list         = "angle",
                !.n_parameter_sets = NParameterSets,
                !.n_samples        = NSamples,
                !.output_folder    = "data/lan_mlp/",
                !.n_subruns        = 1]

\* generator_config['dgp_list'] = 'angle' and the three assignments after it.
GeneratorConfigAssignments(cfg) ==
    [cfg EXCEPT !.dgp_list         = "angle",
                !.n_parameter_sets = NParameterSets,
                !.n_samples        = NSamples,
                !.output_folder    = "data/lan_mlp/"]

\* generator_config = deepcopy(ssms.config.data_generator_config['lan']['mlp'])
\* binds the name to a new object; the assignments change the object the
\* name refers to.
ConfigsCell ==
    /\ CanRun("configs")
    /\ LET o == Deepcopy(SsmsLanMlp)
           copied == Store(heap, o, heap[SsmsLanMlp])
       IN  /\ heap' = Store(copied, o, GeneratorConfigAssignments(copied[o]))
           /\ refs' = [refs EXCEPT !.generator_config = o]
           /\ generator_config' = heap'[o]
    /\ ns' = ns \cup Defines("configs")
    /\ stdout' = <<>>
    /\ pc' = NextCell("configs")
    /\ UNCHANGED <<cwd, fs, uuid_next, session, out_of_doc, gen,
                   file_list_, datasets, network_config, train_config, net,
                   trainer, network_file_path, network, calls, data, sim_call,
                   epoch_io, plot_x>>

-----------------------------------------------------------------------------
(* Cell: MAKE DATA.  generate_data_training_uniform(save = True) runs its  *)
(* simulation rounds and then writes one file, as its output records.      *)

\* Folder of the training-data files of a generator configuration:
\* 'data/lan_mlp/' 'training_data_0_nbins_0_n_1000/' 'angle/'
GenFolder(cfg) ==
    cfg.output_folder \o "training_data_0_nbins_0_n_" \o ToString(cfg.n_samples)
        \o "/" \o cfg.dgp_list \o "/"

\* 'training_data_angle_<uuid hex>.pickle'
GenFileName(cfg, k) == "training_data_" \o cfg.dgp_list \o "_" \o Uuid(k) \o ".pickle"

\* A variant that writes as soon as one round has been simulated.
GenWriteReady_any(round) == round >= 1

\* The file is written once the last round has been simulated.
GenWriteReady(round) == round = NRounds

\* (The first recorded line, 'n_cpus used:  6', depends on the machine and is
\* left out.)
GenStart ==
    /\ CanRun("make_data")
    /\ gen.phase = "idle"
    /\ gen' = [phase |-> "running", round |-> 0, written |-> {}]
    /\ stdout' = << "checking:  " \o generator_config.output_folder >>
    /\ UNCHANGED <<cwd, fs, uuid_next, session, pc, ns, out_of_doc, generator_config,
                   file_list_, datasets, network_config, train_config, net,
                   trainer, network_file_path, network, calls, data, sim_call,
                   heap, refs, epoch_io, plot_x>>

GenRound ==
    /\ pc = "make_data"
    /\ gen.phase = "running"
    /\ gen.round < NRounds
    /\ gen' = [gen EXCEPT !.round = @ + 1]
    /\ stdout' = Append(stdout, "simulation round: " \o ToString(gen.round + 1)
                                   \o "  of " \o ToString(NRounds))
    /\ UNCHANGED <<cwd, fs, uuid_next, session, pc, ns, out_of_doc, generator_config,
                   file_list_, datasets, network_config, train_config, net,
                   trainer, network_file_path, network, calls, data, sim_call,
                   heap, refs, epoch_io, plot_x>>

GenWrite ==
    /\ pc = "make_data"
    /\ gen.phase = "running"
    /\ GenWriteReady(gen.round)
    /\ LET path == GenFolder(generator_config) \o GenFileName(generator_config, uuid_next)
       IN  /\ fs' = WriteFile(fs, AbsPath(cwd, path),
                              [kind |-> "training_data",
                               dgp |-> generator_config.dgp_list,
                               session |-> session])
           /\ gen' = [phase |-> "idle", round |-> gen.round,
                      written |-> gen.written \cup {AbsPath(cwd, path)}]
           /\ stdout' = Append(stdout, "Writing to file:  " \o path)
    /\ uuid_next' = uuid_next + 1
    /\ ns' = ns \cup Defines("make_data")
    /\ pc' = NextCell("make_data")
    /\ UNCHANGED <<cwd, session, out_of_doc, generator_config,
                   file_list_, datasets, network_config, train_config, net,
                   trainer, network_file_path, network, calls, data, sim_call,
                   heap, refs, epoch_io, plot_x>>

-----------------------------------------------------------------------------
(* Cell: MAKE DATALOADERS.                                                 *)

folder_ == "data/lan_mlp/training_data_0_nbins_0_n_1000/angle/"

\* A variant that forgets the folder prefix.
FileList_bare(files, d) == ListDir(files, d, folder_)

\* file_list_ = [folder_ + file_ for file_ in os.listdir(folder_)]
FileList(files, d) == { folder_ \o file_ : file_ \in ListDir(files, d, folder_) }

\* torch.utils.data.DataLoader(..., shuffle = True, batch_size = None,
\*                             num_workers = 1, pin_memory = True)
LoaderArgs == [shuffle |-> TRUE, batch_size_is_none |-> TRUE, batch_size |-> 0,
               num_workers |-> 1, pin_memory |-> TRUE]

\* A variant that validates on no file.
ValidationFileIDs_none(file_list) == {}

\* torch_validation_dataset = DatasetTorch(file_IDs = file_list_, ...)
ValidationFileIDs(file_list) == file_list

\* What a DataLoader yields for one item of its dataset, as a shape.  A
\* DatasetTorch item is one batch of batch_size rows.  With batch_size =
\* None the loader does no batching of its own and yields the item; with a
\* number b it stacks b items.
LoaderItem(loader, dataset) ==
    IF loader.batch_size_is_none
    THEN <<dataset.batch_size, dataset.input_dim>>
    ELSE <<loader.batch_size, dataset.batch_size, dataset.input_dim>>

DataloadersCell ==
    /\ CanRun("dataloaders")
    /\ file_list_' = FileList(fs, cwd)
    /\ datasets' = [train |-> [file_IDs |-> file_list_', batch_size |-> BatchSize,
                               input_dim |-> InputDim],
                    valid |-> [file_IDs |-> ValidationFileIDs(file_list_'),
                               batch_size |-> BatchSize,
                               input_dim |-> InputDim],
                    train_loader |-> LoaderArgs,
                    valid_loader |-> LoaderArgs]
    /\ ns' = ns \cup Defines("dataloaders")
    /\ stdout' = <<>>
    /\ pc' = NextCell("dataloaders")
    /\ UNCHANGED <<cwd, fs, uuid_next, session, out_of_doc, generator_config, gen,
                   network_config, train_config, net,
                   trainer, network_file_path, network, calls, data, sim_call,
                   heap, refs, epoch_io, plot_x>>

-----------------------------------------------------------------------------
(* Cell: SPECIFY NETWORK CONFIGS AND TRAINING CONFIGS.  Both names are     *)
(* bound to the package's dictionaries, whose values the cell prints.      *)

NetConfigsCell ==
    /\ CanRun("net_configs")
    /\ refs' = [refs EXCEPT !.network_config = LanfactoryNetworkConfigMlp,
                            !.train_config = LanfactoryTrainConfigMlp]
    /\ network_config' = heap[LanfactoryNetworkConfigMlp]
    /\ train_config' = heap[LanfactoryTrainConfigMlp]
    /\ ns' = ns \cup Defines("net_configs")
    /\ stdout' = <<"Network config: ", "Train config: ">>
    /\ pc' = NextCell("net_configs")
    /\ UNCHANGED <<cwd, fs, uuid_next, session, out_of_doc, generator_config, gen,
                   file_list_, datasets, net,
                   trainer, network_file_path, network, calls, data, sim_call,
                   heap, epoch_io, plot_x>>

-----------------------------------------------------------------------------
(* Cell: LOAD NETWORK / SAVE CONFIGS.                                      *)

\* TorchMLP(save_folder = '/data/torch_models/', generative_model_id = 'angle')
TorchMLPSaveFolder == "/data/torch_models/"

GenerativeModelId == "angle"

\* A variant that saves the configs into the training-data folder.
ConfigFolder_in_data == folder_

\* save_configs(save_folder = 'data/torch_models/angle/', ...)
ConfigFolder == "data/torch_models/angle/"

\* net.model_id: a fresh uuid and the generative model's name
ModelId(k, gid) == Uuid(k) \o "_" \o gid

\* save_configs(model_id = net.model_id + '_torch_', ...)
ConfigModelId(n) == n.model_id \o "_torch_"

\* The two files save_configs writes.
NetworkConfigFile(n) == ConfigFolder \o ConfigModelId(n) \o "network_config.pickle"
TrainConfigFile(n) == ConfigFolder \o ConfigModelId(n) \o "train_config.pickle"

\* A variant that passes the two dictionaries the wrong way round.
SaveConfigsArgs_swapped ==
    [network_config |-> train_config, train_config |-> network_config]

\* save_configs(network_config = network_config, train_config = train_config)
SaveConfigsArgs ==
    [network_config |-> network_config, train_config |-> train_config]

LoadNetworkCell ==
    /\ CanRun("load_network")
    /\ LET o == Deepcopy(refs.network_config)
           n == [model_id            |-> ModelId(uuid_next, GenerativeModelId),
                 network_config      |-> heap[refs.network_config],
                 input_shape         |-> datasets.train.input_dim,
                 save_folder         |-> TorchMLPSaveFolder,
                 generative_model_id |-> GenerativeModelId]
       IN  /\ net' = n
           /\ heap' = Store(heap, o, heap[refs.network_config])
           /\ refs' = [refs EXCEPT !.net_network_config = o]
           /\ fs' = WriteFile(
                       WriteFile(fs, AbsPath(cwd, NetworkConfigFile(n)),
                                 [kind |-> "network_config",
                                  config |-> SaveConfigsArgs.network_config,
                                  session |-> session]),
                       AbsPath(cwd, TrainConfigFile(n)),
                       [kind |-> "train_config",
                        config |-> SaveConfigsArgs.train_config,
                        session |-> session])
    /\ uuid_next' = uuid_next + 1
    /\ ns' = ns \cup Defines("load_network")
    /\ stdout' = <<"tanh", "linear">>
    /\ pc' = NextCell("load_network")
    /\ UNCHANGED <<cwd, session, out_of_doc, generator_config, gen,
                   file_list_, datasets, network_config, train_config,
                   trainer, network_file_path, network, calls, data, sim_call,
                   epoch_io, plot_x>>

-----------------------------------------------------------------------------
(* The construction of the trainer.  The document describes it ("we supply *)
(* our network, the dataloaders and training config to the                 *)
(* ModelTrainerTorchMLP class") and the recorded output of the next cell   *)
(* shows that it was executed in the recorded session, but no cell of the  *)
(* document holds it: it is an execution outside the document.  The        *)
(* trained artifacts are written alongside the saved configurations.       *)

\* The folder of a network: its save_folder and its generative model.
NetSaveFolder(n) == n.save_folder \o n.generative_model_id \o "/"

\* The folder the trainer writes the trained artifacts into.
TrainerOutputFolder == ConfigFolder

ConstructModelTrainer ==
    /\ pc = "train"
    /\ "model_trainer" \notin ns
    /\ {"lanfactory", "net", "train_config", "torch_training_dataloader",
        "torch_validation_dataloader"} \subseteq ns
    /\ trainer' = [phase |-> "ready", epoch |-> 0,
                   output_folder |-> TrainerOutputFolder,
                   model_id |-> net.model_id, n_epochs |-> train_config.n_epochs,
                   written |-> <<>>]
    /\ ns' = ns \cup {"model_trainer"}
    /\ out_of_doc' = out_of_doc \cup {"model_trainer"}
    /\ UNCHANGED <<cwd, fs, uuid_next, session, pc, stdout, generator_config, gen,
                   file_list_, datasets, network_config, train_config, net,
                   network_file_path, network, calls, data, sim_call,
                   heap, refs, epoch_io, plot_x>>

\* A cell that reads an unbound name raises NameError, and the run stops.
CellNameError ==
    /\ pc \in Cells
    /\ ~(Uses(pc) \subseteq ns)
    /\ stdout' = <<"NameError">>
    /\ pc' = "halted"
    /\ UNCHANGED <<cwd, fs, uuid_next, session, ns, out_of_doc, generator_config, gen,
                   file_list_, datasets, network_config, train_config, net,
                   trainer, network_file_path, network, calls, data, sim_call,
                   heap, refs, epoch_io, plot_x>>

-----------------------------------------------------------------------------
(* Cell: TRAIN MODEL.  train_model(save_history = True, save_model = True) *)
(* as its recorded output shows it: per epoch a training pass and then a   *)
(* validation pass, and after the last epoch the history, the state dict   *)
(* and the closing message.                                                *)

\* A variant that leaves the loop one epoch early.
AfterValidation_early(e, n) == IF e + 1 < n - 1 THEN "epoch" ELSE "save_history"

\* What follows the validation pass of epoch e, of n epochs.
AfterValidation(e, n) == IF e + 1 < n THEN "epoch" ELSE "save_history"

HistoryFile(t) == t.output_folder \o "/" \o t.model_id \o "_torch_training_history.csv"
StateDictFile(t) == t.output_folder \o "/" \o t.model_id \o "_torch_state_dict.pt"

EpochTookLine(e, n) == "Epoch took " \o ToString(e) \o " / " \o ToString(n)
ValidationLine(e, n) ==
    "epoch " \o ToString(e) \o " / " \o ToString(n) \o ", validation_loss"

TrainCall ==
    /\ CanRun("train")
    /\ trainer.phase = "ready"
    /\ trainer' = [trainer EXCEPT !.phase = "epoch", !.epoch = 0, !.written = <<>>]
    /\ stdout' = <<>>
    /\ UNCHANGED <<cwd, fs, uuid_next, session, pc, ns, out_of_doc, generator_config,
                   gen, file_list_, datasets, network_config, train_config, net,
                   network_file_path, network, calls, data, sim_call,
                   heap, refs, epoch_io, plot_x>>

TrainEpoch ==
    /\ pc = "train"
    /\ trainer.phase = "epoch"
    /\ trainer' = [trainer EXCEPT !.phase = "validate"]
    /\ stdout' = Append(stdout, EpochTookLine(trainer.epoch, trainer.n_epochs))
    /\ epoch_io' = [NoEpochIO EXCEPT
                       !.train_files = datasets.train.file_IDs,
                       !.train_item = LoaderItem(datasets.train_loader, datasets.train)]
    /\ UNCHANGED <<cwd, fs, uuid_next, session, pc, ns, out_of_doc, generator_config,
                   gen, file_list_, datasets, network_config, train_config, net,
                   network_file_path, network, calls, data, sim_call,
                   heap, refs, plot_x>>

TrainValidate ==
    /\ pc = "train"
    /\ trainer.phase = "validate"
    /\ LET then == AfterValidation(trainer.epoch, trainer.n_epochs)
       IN  trainer' = [trainer EXCEPT
                          !.phase = then,
                          !.epoch = IF then = "epoch" THEN @ + 1 ELSE @]
    /\ stdout' = Append(stdout, ValidationLine(trainer.epoch, trainer.n_epochs))
    /\ epoch_io' = [epoch_io EXCEPT
                       !.valid_files = datasets.valid.file_IDs,
                       !.valid_item = LoaderItem(datasets.valid_loader, datasets.valid),
                       !.validated = TRUE]
    /\ UNCHANGED <<cwd, fs, uuid_next, session, pc, ns, out_of_doc, generator_config,
                   gen, file_list_, datasets, network_config, train_config, net,
                   network_file_path, network, calls, data, sim_call,
                   heap, refs, plot_x>>

TrainSaveHistory ==
    /\ pc = "train"
    /\ trainer.phase = "save_history"
    /\ fs' = WriteFile(fs, AbsPath(cwd, HistoryFile(trainer)),
                       [kind |-> "training_history", model_id |-> trainer.model_id,
                        epochs |-> trainer.epoch + 1, session |-> session])
    /\ trainer' = [trainer EXCEPT
                      !.phase = "save_model",
                      !.written = Append(@, AbsPath(cwd, HistoryFile(trainer)))]
    /\ stdout' = Append(stdout, "Saving training history")
    /\ UNCHANGED <<cwd, uuid_next, session, pc, ns, out_of_doc, generator_config,
                   gen, file_list_, datasets, network_config, train_config, net,
                   network_file_path, network, calls, data, sim_call,
                   heap, refs, epoch_io, plot_x>>

TrainSaveModel ==
    /\ pc = "train"
    /\ trainer.phase = "save_model"
    /\ fs' = WriteFile(fs, AbsPath(cwd, StateDictFile(trainer)),
                       [kind |-> "state_dict", model_id |-> trainer.model_id,
                        epochs |-> trainer.epoch + 1, session |-> session])
    /\ trainer' = [trainer EXCEPT
                      !.phase = "finish",
                      !.written = Append(@, AbsPath(cwd, StateDictFile(trainer)))]
    /\ stdout' = Append(stdout, "Saving model state dict")
    /\ UNCHANGED <<cwd, uuid_next, session, pc, ns, out_of_doc, generator_config,
                   gen, file_list_, datasets, network_config, train_config, net,
                   network_file_path, network, calls, data, sim_call,
                   heap, refs, epoch_io, plot_x>>

TrainFinish ==
    /\ pc = "train"
    /\ trainer.phase = "finish"
    /\ trainer' = [trainer EXCEPT !.phase = "finished"]
    /\ stdout' = Append(stdout, "Training finished successfully...")
    /\ pc' = NextCell("train")
    /\ UNCHANGED <<cwd, fs, uuid_next, session, ns, out_of_doc, generator_config,
                   gen, file_list_, datasets, network_config, train_config, net,
                   network_file_path, network, calls, data, sim_call,
                   heap, refs, epoch_io, plot_x>>

-----------------------------------------------------------------------------
(* Cell: network = LoadTorchMLPInfer(...).                                 *)

\* os.listdir('data/torch_models/angle')
ModelFolder == "data/torch_models/angle"

\* 'data/torch_models/angle/' + file_
ModelPrefix == "data/torch_models/angle/"

\* A variant that tests for a substring every saved file has.
IsStateDictName_torch(file_) == Contains(file_, "_torch_")

\* if 'state_dict' in file_
IsStateDictName(file_) == Contains(file_, "state_dict")

\* ['data/torch_models/angle/' + file_ for file_ in network_path_list
\*                                      if 'state_dict' in file_]
StateDictPaths(files, d) ==
    { ModelPrefix \o file_ :
        file_ \in { g \in ListDir(files, d, ModelFolder) : IsStateDictName(g) } }

\* [...][0]: os.listdir returns the entries in arbitrary order, so the first
\* element of the filtered list can be any element of it.  (Of an empty list
\* it raises IndexError; in document order the list is never empty, since
\* the training cell has written a state dict into the folder.)
LoadInferCell ==
    /\ CanRun("load_infer")
    /\ \E path \in StateDictPaths(fs, cwd) :
          /\ network_file_path' = path
          /\ network' = [model_file_path |-> path,
                         network_config  |-> network_config,
                         input_dim       |-> datasets.train.input_dim,
                         weights         |-> fs[AbsPath(cwd, path)]]
    /\ refs' = [refs EXCEPT !.network_network_config = refs.network_config]
    /\ ns' = ns \cup Defines("load_infer")
    /\ stdout' = <<"tanh", "linear">>
    /\ pc' = NextCell("load_infer")
    /\ UNCHANGED <<cwd, fs, uuid_next, session, out_of_doc, generator_config, gen,
                   file_list_, datasets, network_config, train_config, net,
                   trainer, calls, data, sim_call,
                   heap, epoch_io, plot_x>>

-----------------------------------------------------------------------------
(* Cell: two ways to call the network.  Numbers are kept as integers:      *)
(* parameter values in hundredths.                                         *)

\* np.array([1, 1.5, 0.5, 1.0, 0.1, 0.65, 1], dtype = np.float32)
CallVector == <<100, 150, 50, 100, 10, 65, 100>>

CallCell ==
    /\ CanRun("call")
    /\ calls' = << [method |-> "__call__", input |-> <<CallVector>>],
                   [method |-> "predict_on_batch", input |-> <<CallVector>>] >>
    /\ ns' = ns \cup Defines("call")
    /\ stdout' = <<"direct call out: ", "predict_on_batch out: ">>
    /\ pc' = NextCell("call")
    /\ UNCHANGED <<cwd, fs, uuid_next, session, out_of_doc, generator_config, gen,
                   file_list_, datasets, network_config, train_config, net,
                   trainer, network_file_path, network, data, sim_call,
                   heap, refs, epoch_io, plot_x>>

-----------------------------------------------------------------------------
(* Cell: the inference table and the simulation it is compared with.       *)
(* data.values is a sequence of rows; Python's row i is row i + 1 here.    *)
(* The parameter columns hold hundredths; the rt column holds numerators   *)
(* over the common denominator RtDenominator.                              *)

Columns == <<"v", "a", "z", "t", "theta", "rt", "choice">>

ColumnIndex(name) == CHOOSE j \in 1..Len(Columns) : Columns[j] = name

NRows == 2 * HalfRows

RtDenominator == HalfRows - 1

\* A variant that runs from b to a.
Linspace_from_b(a, b, n, i) == b * (n - 1) + (a - b) * i

\* np.linspace(a, b, n)[i], as a numerator over n - 1
Linspace(a, b, n, i) == a * (n - 1) + (b - a) * i

\* np.zeros((2000, 7))
Zeros(n, m) == [i \in 1..n |-> [j \in 1..m |-> 0]]

\* data[col] = value
SetColumn(values, col, value) ==
    [i \in 1..Len(values) |-> [values[i] EXCEPT ![ColumnIndex(col)] = value]]

\* data[col].iloc[from:to] = array   (Python rows from .. to - 1; the array
\* is indexed from 0)
SetRows(values, col, from, to, array) ==
    [i \in 1..Len(values) |->
        IF from <= i - 1 /\ i - 1 < to
        THEN [values[i] EXCEPT ![ColumnIndex(col)] = array[i - 1 - from]]
        ELSE values[i]]

\* np.linspace(5, 0, 1000) and np.linspace(0, 5, 1000)
RtDown == [i \in 0..(HalfRows - 1) |-> Linspace(5, 0, HalfRows, i)]
RtUp == [i \in 0..(HalfRows - 1) |-> Linspace(0, 5, HalfRows, i)]

\* a scalar assigned to n rows
Broadcast(value, n) == [i \in 0..(n - 1) |-> value]

DataValues ==
    LET d0 == Zeros(NRows, Len(Columns))
        d1 == SetColumn(d0, "v", 50)
        d2 == SetColumn(d1, "a", 75)
        d3 == SetColumn(d2, "z", 50)
        d4 == SetColumn(d3, "t", 20)
        d5 == SetColumn(d4, "theta", 10)
        d6 == SetRows(d5, "rt", 0, HalfRows, RtDown)
        d7 == SetRows(d6, "rt", HalfRows, NRows, RtUp)
        d8 == SetRows(d7, "choice", 0, HalfRows, Broadcast(-1, HalfRows))
    IN  SetRows(d8, "choice", HalfRows, NRows, Broadcast(1, NRows - HalfRows))

\* A variant that keeps one entry too many.
SliceToEnd_long(row, k) == SubSeq(row, 1, Len(row) + k + 1)

\* row[:k] for a negative k: all but the last -k entries
SliceToEnd(row, k) == SubSeq(row, 1, Len(row) + k)

\* data.values[0, :-2]
SimTheta(values) == SliceToEnd(values[1], -2)

\* simulator(model = 'angle', ...)
SimModel == "angle"

CompareCell ==
    /\ CanRun("compare")
    /\ data' = DataValues
    /\ calls' = Append(calls, [method |-> "predict_on_batch", input |-> data'])
    /\ sim_call' = [model |-> SimModel, theta |-> SimTheta(data'),
                    n_samples |-> SimSamples]
    /\ ns' = ns \cup Defines("compare")
    /\ stdout' = <<>>
    /\ pc' = NextCell("compare")
    /\ UNCHANGED <<cwd, fs, uuid_next, session, out_of_doc, generator_config, gen,
                   file_list_, datasets, network_config, train_config, net,
                   trainer, network_file_path, network,
                   heap, refs, epoch_io, plot_x>>

(* Cell: the plot.                                                         *)

\* plt.plot(data['rt'] * data['choice'], ...): the x-coordinates, as
\* numerators over RtDenominator
PlotX(values) ==
    [i \in 1..Len(values) |->
        values[i][ColumnIndex("rt")] * values[i][ColumnIndex("choice")]]

PlotCell ==
    /\ CanRun("plot")
    /\ plot_x' = PlotX(data)
    /\ ns' = ns \cup Defines("plot")
    /\ stdout' = <<"Text(0, 0.5, 'likelihod')">>
    /\ pc' = NextCell("plot")
    /\ UNCHANGED <<cwd, fs, uuid_next, session, out_of_doc, generator_config, gen,
                   file_list_, datasets, network_config, train_config, net,
                   trainer, network_file_path, network, calls, data, sim_call,
                   heap, refs, epoch_io>>

-----------------------------------------------------------------------------
(* Restart the kernel and run the document again: the namespace is lost,   *)
(* the files stay.                                                         *)

Restart ==
    /\ pc \in {"done", "halted"}
    /\ session < MaxSessions
    /\ session' = session + 1
    /\ pc' = CellOrder[1]
    /\ ns' = {}
    /\ out_of_doc' = {}
    /\ stdout' = <<>>
    /\ generator_config' = NoGeneratorConfig
    /\ gen' = GenIdle
    /\ file_list_' = {}
    /\ datasets' = NoDatasets
    /\ network_config' = NoConfig
    /\ train_config' = NoConfig
    /\ net' = NoNet
    /\ trainer' = TrainerIdle
    /\ network_file_path' = ""
    /\ network' = NoNetwork
    /\ calls' = <<>>
    /\ data' = <<>>
    /\ sim_call' = NoSimCall
    /\ heap' = [o \in {SsmsSource} |-> heap[SsmsSource]]
    /\ refs' = NoRefs
    /\ epoch_io' = NoEpochIO
    /\ plot_x' = <<>>
    /\ UNCHANGED <<cwd, fs, uuid_next>>

Next ==
    \/ ImportCell
    \/ ConfigsCell
    \/ GenStart
    \/ GenRound
    \/ GenWrite
    \/ DataloadersCell
    \/ NetConfigsCell
    \/ LoadNetworkCell
    \/ ConstructModelTrainer
    \/ CellNameError
    \/ TrainCall
    \/ TrainEpoch
    \/ TrainValidate
    \/ TrainSaveHistory
    \/ TrainSaveModel
    \/ TrainFinish
    \/ LoadInferCell
    \/ CallCell
    \/ CompareCell
    \/ PlotCell
    \/ Restart

Spec == Init /\ [][Next]_vars

-----------------------------------------------------------------------------
(* Properties.                                                             *)

IsPrefix(s, t) == Len(s) <= Len(t) /\ \A i \in 1..Len(s) : s[i] = t[i]

Range(s) == { s[i] : i \in 1..Len(s) }

\* path lies in folder dir or below it
IsUnder(path, dir) ==
    Len(path) > Len(dir) + 1 /\ SubSeq(path, 1, Len(dir) + 1) = dir \o "/"

FilesOfKind(kinds) == { f \in DOMAIN fs : fs[f].kind \in kinds }

\* The lines train_model prints for n epochs, as recorded (without the
\* timings and the loss values).
ExpectedTrainOutput(n) ==
    [i \in 1..(2 * n + 3) |->
        IF i <= 2 * n
        THEN IF i % 2 = 1 THEN EpochTookLine((i - 1) \div 2, n)
                          ELSE ValidationLine((i - 2) \div 2, n)
        ELSE IF i = 2 * n + 1 THEN "Saving training history"
        ELSE IF i = 2 * n + 2 THEN "Saving model state dict"
        ELSE "Training finished successfully..."]

InTrainCall ==
    pc = "train" /\ trainer.phase \in {"epoch", "validate", "save_history",
                                       "save_model", "finish"}

\* The trained artifacts of the network of this session.
TrainedArtifacts ==
    { f \in FilesOfKind({"training_history", "state_dict"}) :
        fs[f].model_id = net.model_id }

\* C1: a call to train_model with n_epochs = N runs epochs 0..N-1 in
\* increasing order, reports each epoch's validation loss right after that
\* epoch's training, and writes the trained artifact once and only after
\* epoch N-1: first the training history, then the state dict, then it
\* reports that training finished; nothing is saved before the last epoch
\* has ended.
C1_TrainModelOrder ==
    /\ InTrainCall => IsPrefix(stdout, ExpectedTrainOutput(NEpochs))
    /\ (InTrainCall \/ trainer.phase = "finished") =>
          /\ TrainedArtifacts = Range(trainer.written)
          /\ Len(trainer.written) <= 2
          /\ \A f \in TrainedArtifacts : fs[f].epochs = NEpochs
          /\ Len(trainer.written) >= 1 =>
                /\ fs[trainer.written[1]].kind = "training_history"
                /\ trainer.epoch = NEpochs - 1
          /\ Len(trainer.written) = 2 =>
                /\ fs[trainer.written[2]].kind = "state_dict"
                /\ trainer.written[1] # trainer.written[2]
    /\ (trainer.phase = "finished" /\ pc = NextCell("train")) =>
          /\ stdout = ExpectedTrainOutput(NEpochs)
          /\ Len(trainer.written) = 2

C1_Witness ==
    /\ trainer.phase = "finished"
    /\ pc = NextCell("train")
    /\ Len(stdout) = 2 * NEpochs + 3
    /\ Cardinality(TrainedArtifacts) = 2

\* C2: the weight file LoadTorchMLPInfer loads is an artifact written by
\* the preceding train_model call, and the folder listed for state-dict
\* files at inference time is the folder the trained network saves into:
\* the save_folder given to TorchMLP together with its generative model id.
C2_LoadsWhatTrainingWrote ==
    /\ "net" \in ns => AbsPath(cwd, ModelFolder) = AbsPath(cwd, NetSaveFolder(net))
    /\ "network" \in ns =>
          /\ trainer.phase = "finished"
          /\ network.weights.kind = "state_dict"
          /\ network.weights.model_id = net.model_id

\* C3: run in document order, every cell reads only names that an earlier
\* cell of the document has bound; in particular a ModelTrainerTorchMLP has
\* been constructed by an earlier cell when train_model is called.
C3_CellsUseNamesOfEarlierCells ==
    pc \in Cells => Uses(pc) \subseteq (ns \ out_of_doc)

\* C4: the file list given to DatasetTorch is the listing of the generation
\* output folder, each entry prefixed with the folder path, so that every
\* shard any generation run has written is in the list.
C4_FileListHasEveryShard ==
    "file_list_" \in ns =>
        /\ datasets.train.file_IDs = file_list_
        /\ \A p \in file_list_ :
              /\ AbsPath(cwd, p) \in DOMAIN fs
              /\ Dirname(AbsPath(cwd, p)) = AbsPath(cwd, GenFolder(generator_config))
        /\ \A f \in FilesOfKind({"training_data"}) :
              \E p \in file_list_ : AbsPath(cwd, p) = f
        /\ Cardinality(file_list_) =
              Cardinality(ListDir(fs, cwd, GenFolder(generator_config)))

C4_Witness ==
    /\ "torch_training_dataset" \in ns
    /\ session = 2
    /\ Cardinality(FilesOfKind({"training_data"})) = 2
    /\ Cardinality(datasets.train.file_IDs) = 2

\* C5: whenever the model folder holds a file whose name contains
\* 'state_dict', the path passed to LoadTorchMLPInfer names a file of that
\* folder whose name contains 'state_dict'; a training history or a saved
\* configuration is never selected, whatever the order of the listing and
\* however many training runs have written into the folder.
C5_ModelFileIsAStateDict ==
    /\ "network_file_path" \in ns =>
          /\ AbsPath(cwd, network_file_path) \in DOMAIN fs
          /\ Dirname(AbsPath(cwd, network_file_path)) = AbsPath(cwd, ModelFolder)
          /\ Contains(Basename(network_file_path), "state_dict")
          /\ fs[AbsPath(cwd, network_file_path)].kind = "state_dict"
          /\ network.model_file_path = network_file_path
    /\ (pc = "load_infer" /\ FilesOfKind({"state_dict"}) # {}) =>
          StateDictPaths(fs, cwd) # {}

C5_Witness ==
    /\ "network" \in ns
    /\ session = 2
    /\ Cardinality({ f \in FilesOfKind({"state_dict"}) :
                       Dirname(f) = AbsPath(cwd, ModelFolder) }) = 2
    /\ \E f \in FilesOfKind({"training_history", "network_config", "train_config"}) :
          Dirname(f) = AbsPath(cwd, ModelFolder)
    /\ fs[AbsPath(cwd, network_file_path)].session = 1

ShardFolder == { f \in DOMAIN fs : Dirname(f) = AbsPath(cwd, folder_) }

ShardFolderContent == [f \in ShardFolder |-> fs[f]]

\* C8: training data is generated once and only consumed afterwards: from
\* the end of the generation step to the end of the notebook no step
\* (dataset construction, a training or validation epoch, inference, the
\* plot) writes, deletes or regenerates a file of the shard folder, and the
\* datasets keep reading the same files.
C8_ShardsOnlyConsumed ==
    [][ /\ (pc # "make_data" => ShardFolderContent' = ShardFolderContent)
        /\ ("torch_training_dataset" \in ns /\ "torch_training_dataset" \in ns') =>
              /\ datasets' = datasets
              /\ \A p \in datasets.train.file_IDs : AbsPath(cwd, p) \in ShardFolder'
      ]_vars

C8_Witness ==
    /\ pc = "done"
    /\ trainer.phase = "finished"
    /\ datasets.train.file_IDs # {}
    /\ \A p \in datasets.train.file_IDs :
          /\ AbsPath(cwd, p) \in ShardFolder
          /\ fs[AbsPath(cwd, p)].kind = "training_data"

\* The training-data files the generation run of this session has written.
WrittenThisRun == { f \in FilesOfKind({"training_data"}) : fs[f].session = session }

\* C9: one generation run performs its simulation rounds 1..R in increasing
\* order (R = 10 for n_parameter_sets = 100) and then writes exactly one
\* training-data file, after round R and never before, under output_folder
\* in a sub-folder named for the generative model.
C9_GenerationRun ==
    /\ (pc = "make_data" /\ gen.phase = "running") =>
          /\ Len(stdout) = gen.round + 1
          /\ \A r \in 1..gen.round :
                stdout[r + 1] = "simulation round: " \o ToString(r) \o "  of 10"
          /\ gen.round <= 10
          /\ generator_config.n_parameter_sets = 100
          /\ WrittenThisRun = {}
    /\ WrittenThisRun = gen.written
    /\ Cardinality(gen.written) <= 1
    /\ \A f \in gen.written :
          /\ gen.round = 10
          /\ IsUnder(f, AbsPath(cwd, generator_config.output_folder))
          /\ Basename(Dirname(f)) = "angle"
          /\ generator_config.dgp_list = "angle"
    /\ "training_data" \in ns => Cardinality(gen.written) = 1

C9_Witness ==
    /\ pc = NextCell("make_data")
    /\ Cardinality(gen.written) = 1
    /\ Len(stdout) = NRounds + 2
    /\ session = 2

\* C10: the simulation the predictions are compared with uses the model and
\* the parameters of the predictions: the simulator is called with model
\* 'angle', the model the data was generated for and the network trained
\* on, and with theta equal to the five parameter columns v, a, z, t, theta
\* that every row of the network input shares, without rt and choice.
C10_SimulationMatchesPredictions ==
    "sim_out" \in ns =>
        /\ sim_call.model = generator_config.dgp_list
        /\ sim_call.model = net.generative_model_id
        /\ Contains(network.weights.model_id, "_" \o sim_call.model)
        /\ { Columns[j] : j \in 1..Len(sim_call.theta) } = {"v", "a", "z", "t", "theta"}
        /\ \A i \in 1..Len(data) : \A j \in 1..Len(sim_call.theta) :
              data[i][j] = sim_call.theta[j]
        /\ calls[Len(calls)].input = data

C10_Witness ==
    /\ "sim_out" \in ns
    /\ pc = "plot"
    /\ Len(data) = NRows
    /\ sim_call.theta = <<50, 75, 50, 20, 10>>

\* The two loaders of the cell MAKE DATALOADERS.
Loaders == {datasets.train_loader, datasets.valid_loader}

\* C11: the training and the validation DataLoader are both constructed with
\* their own batch_size argument kept at 0, the batching being done by
\* DatasetTorch with batch_size 128, so that each item a loader yields is one
\* batch produced by DatasetTorch.
C11_LoaderBatchSizeKeptAtZero ==
    /\ "torch_validation_dataloader" \in ns =>
          /\ \A l \in Loaders : ~l.batch_size_is_none /\ l.batch_size = 0
          /\ datasets.train.batch_size = 128
          /\ datasets.valid.batch_size = 128
    /\ epoch_io.train_item # <<>> =>
          epoch_io.train_item = <<128, datasets.train.input_dim>>
    /\ epoch_io.validated =>
          epoch_io.valid_item = <<128, datasets.valid.input_dim>>

\* The rt and the choice of Python's row i of the table t.
Rt(t, i) == t[i + 1][ColumnIndex("rt")]
Choice(t, i) == t[i + 1][ColumnIndex("choice")]

\* C12: in the inference table, the rows of the first half have choice -1
\* with rt going from 5 down to 0 and the rows of the second half have
\* choice +1 with rt going from 0 up to 5; so every row has choice -1 or +1
\* and rt in [0, 5], and the signed reaction time rt * choice, the x-axis of
\* the plot, is non-decreasing in the row index and runs from -5 to +5.
\* (rt is a numerator over RtDenominator, so 5 is 5 * RtDenominator.)
C12_SignedRtNonDecreasing ==
    /\ "data" \in ns =>
          /\ Len(data) = NRows
          /\ \A i \in 0..(HalfRows - 1) :
                /\ Choice(data, i) = -1
                /\ Rt(data, i) = 5 * RtDenominator - 5 * i
          /\ \A i \in HalfRows..(NRows - 1) :
                /\ Choice(data, i) = 1
                /\ Rt(data, i) = 5 * (i - HalfRows)
          /\ \A i \in 0..(NRows - 1) :
                /\ Choice(data, i) \in {-1, 1}
                /\ 0 <= Rt(data, i) /\ Rt(data, i) <= 5 * RtDenominator
    /\ plot_x # <<>> =>
          /\ Len(plot_x) = NRows
          /\ plot_x[1] = -5 * RtDenominator
          /\ plot_x[NRows] = 5 * RtDenominator
          /\ \A i, j \in 1..NRows : i <= j => plot_x[i] <= plot_x[j]

C12_Witness ==
    /\ pc = "done"
    /\ Len(plot_x) = NRows
    /\ plot_x[HalfRows] = 0
    /\ plot_x[HalfRows + 1] = 0
    /\ plot_x[1] < plot_x[2]

\* C13: the inference network is built from the architecture description of
\* the trained network.  TorchMLP receives a deep copy of network_config, an
\* object of its own with the same content, so constructing and training it
\* leaves network_config as the cell SPECIFY NETWORK CONFIGS bound it; and
\* LoadTorchMLPInfer is given a network_config and an input_dim equal to
\* those the trained network was constructed with, which are also the
\* network_config saved under the model id of the weights it loads.
C13_InferenceUsesTrainedArchitecture ==
    /\ "network_config" \in ns =>
          /\ refs.network_config = LanfactoryNetworkConfigMlp
          /\ heap[refs.network_config] = network_config
          /\ network_config = network_config_mlp
    /\ "net" \in ns =>
          /\ refs.net_network_config # refs.network_config
          /\ heap[refs.net_network_config] = heap[refs.network_config]
          /\ net.network_config = network_config
    /\ "network" \in ns =>
          /\ refs.network_network_config = refs.network_config
          /\ network.network_config = net.network_config
          /\ network.input_dim = net.input_shape
          /\ \A f \in FilesOfKind({"network_config"}) :
                Contains(f, network.weights.model_id) =>
                    fs[f].config = network.network_config

C13_Witness ==
    /\ "network" \in ns
    /\ pc = "call"
    /\ refs.net_network_config = Deepcopy(LanfactoryNetworkConfigMlp)
    /\ network.network_config = network_config_mlp
    /\ network.input_dim = InputDim
    /\ \E f \in FilesOfKind({"network_config"}) :
          Contains(f, network.weights.model_id)

\* The keys on which two dictionaries differ.
DiffKeys(a, b) ==
    { k \in (DOMAIN a) \cap (DOMAIN b) : a[k] # b[k] }
        \cup ((DOMAIN a) \ (DOMAIN b)) \cup ((DOMAIN b) \ (DOMAIN a))

\* The library's default generator configuration is as the package defines it.
DefaultUnchanged == "ssms" \in ns => heap[SsmsLanMlp] = heap[SsmsSource]

\* generator_config is an object of its own, not the library's dictionary.
OwnCopy ==
    /\ refs.generator_config # SsmsLanMlp
    /\ heap[refs.generator_config] = generator_config

\* C14, as stated: building generator_config leaves the library's default
\* generator configuration unchanged, the four assignments acting on a deep
\* copy, and generator_config differs from the library default in exactly
\* the four assigned keys dgp_list, n_parameter_sets, n_samples and
\* output_folder.
C14_DiffersInExactlyFourKeys ==
    /\ DefaultUnchanged
    /\ "generator_config" \in ns =>
          /\ OwnCopy
          /\ DiffKeys(generator_config, heap[SsmsLanMlp]) = AssignedKeys

\* C14, amended: building generator_config leaves the library's default
\* generator configuration unchanged, the four assignments acting on a deep
\* copy; generator_config holds the four assigned values and differs from
\* the library default in no key other than those four (an assigned key
\* whose default already is the assigned value does not differ).
C14_OnlyAssignedKeysDiffer ==
    /\ DefaultUnchanged
    /\ "generator_config" \in ns =>
          /\ OwnCopy
          /\ generator_config.dgp_list = "angle"
          /\ generator_config.n_parameter_sets = 100
          /\ generator_config.n_samples = 1000
          /\ generator_config.output_folder = "data/lan_mlp/"
          /\ DiffKeys(generator_config, heap[SsmsLanMlp]) \subseteq AssignedKeys

C14_Witness ==
    /\ "generator_config" \in ns
    /\ pc = "make_data"
    /\ refs.generator_config = Deepcopy(SsmsLanMlp)
    /\ heap[SsmsLanMlp].output_folder = generator_config.output_folder
    /\ DiffKeys(generator_config, heap[SsmsLanMlp])
          = {"dgp_list", "n_parameter_sets", "n_samples"}

\* C15: the validation dataset is constructed from exactly the file list and
\* the batch size of the training dataset, so at every epoch the set of
\* shard files read for validation equals the set read for training: the
\* validation loss is computed on files that are also trained on.
C15_ValidationReadsTrainingFiles ==
    /\ "torch_validation_dataset" \in ns =>
          /\ datasets.valid.file_IDs = datasets.train.file_IDs
          /\ datasets.train.file_IDs = file_list_
          /\ datasets.valid.batch_size = datasets.train.batch_size
    /\ epoch_io.validated =>
          /\ epoch_io.train_files # {}
          /\ epoch_io.valid_files = epoch_io.train_files
          /\ epoch_io.valid_item = epoch_io.train_item

C15_Witness ==
    /\ pc = "train"
    /\ epoch_io.validated
    /\ trainer.phase = "epoch"
    /\ trainer.epoch = NEpochs - 1
    /\ Cardinality(epoch_io.valid_files) = 2
    /\ epoch_io.valid_files = epoch_io.train_files

====
